---- MODULE Spec2Model ----
(***************************************************************************)
(* State-machine model of src/snake.ts: the game state {board, length},    *)
(* init, placeRandomly and advance.  The board is an array of rows, each   *)
(* an array of cell values, indexed from 0 as in the source.  Recursion in *)
(* placeRandomly is modelled as a retry with no bound on its depth.        *)
(***************************************************************************)
EXTENDS Integers, FiniteSets, Sequences, TLC

\* Largest width / height passed to init.
MaxWidth == 3
MaxHeight == 3
\* Largest number of cells of a board.
MaxCells == 9

VARIABLES board, length, pc, args, dir, outcome, old, key, display, rendered

vars == <<board, length, pc, args, dir, outcome, old, key, display, rendered>>

\* enum Direction
North == "n"
South == "s"
East == "e"
West == "w"
Direction == {North, South, East, West}

\* event.key values: the four arrows and one key that is not an arrow
ArrowKeys == {"ArrowUp", "ArrowDown", "ArrowRight", "ArrowLeft"}
Keys == ArrowKeys \cup {"Enter"}

\* listener that exchanges the directions of ArrowRight and ArrowLeft
KeyDirectionMirrored(k) ==
    IF k = "ArrowUp" THEN North
    ELSE IF k = "ArrowDown" THEN South
    ELSE IF k = "ArrowRight" THEN West
    ELSE East

\* direction the keydown listener chooses for an arrow key
KeyDirection(k) ==
    IF k = "ArrowUp" THEN North
    ELSE IF k = "ArrowDown" THEN South
    ELSE IF k = "ArrowRight" THEN East
    ELSE West

\* height omitted in a call init(width)
Undefined == 0

\* Possible results of randomIndex(n): Math.floor(Math.random() * n)
randomIndex(n) == 0 .. (n - 1)

\* array.length of a 0-based array
ArrayLength(array) == Cardinality(DOMAIN array)

\* findIndex: first index whose value satisfies the predicate, else -1; the
\* predicate is given by its result at each index of the array
findIndex(array, peredicate) ==
    IF \E i \in DOMAIN array : peredicate[i]
    THEN CHOOSE i \in DOMAIN array :
            /\ peredicate[i]
            /\ \A k \in DOMAIN array : k < i => ~peredicate[k]
    ELSE -1

\* Column of the head inside one row (inner findIndex of advance)
RowHeadColumn(row, len) == findIndex(row, [j \in DOMAIN row |-> row[j] = len])

\* headRow of advance: first row in which the inner search succeeds
HeadRow(g) ==
    findIndex(g.board,
              [i \in DOMAIN g.board |-> RowHeadColumn(g.board[i], g.length) # -1])

\* headColumn of advance: the value the last evaluated inner search left in
\* the captured variable (the found row's, or the last row's -1)
HeadColumn(g) ==
    IF HeadRow(g) # -1
    THEN RowHeadColumn(g.board[HeadRow(g)], g.length)
    ELSE -1

\* row offset with North and South exchanged
NewHeadRowFlipped(headRow, direction) ==
    IF direction = North THEN headRow + 1
    ELSE IF direction = South THEN headRow - 1
    ELSE headRow

\* column offset that moves two cells East
NewHeadColumnJump(headColumn, direction) ==
    IF direction = North THEN headColumn
    ELSE IF direction = South THEN headColumn
    ELSE IF direction = East THEN headColumn + 2
    ELSE headColumn - 1

\* newHeadRow / newHeadColumn for a direction
NewHeadRow(headRow, direction) ==
    IF direction = North THEN headRow - 1
    ELSE IF direction = South THEN headRow + 1
    ELSE headRow

NewHeadColumn(headColumn, direction) ==
    IF direction = North THEN headColumn
    ELSE IF direction = South THEN headColumn
    ELSE IF direction = East THEN headColumn + 1
    ELSE headColumn - 1

\* wall test that also rejects row 0
HitWallStrict(b, newHeadRow, newHeadColumn) ==
    \/ newHeadRow <= 0
    \/ newHeadColumn < 0
    \/ newHeadRow >= ArrayLength(b)
    \/ newHeadColumn >= ArrayLength(b[0])

\* 'Would hit wall' condition
HitWall(b, newHeadRow, newHeadColumn) ==
    \/ newHeadRow < 0
    \/ newHeadColumn < 0
    \/ newHeadRow >= ArrayLength(b)
    \/ newHeadColumn >= ArrayLength(b[0])

\* tail test that lets the head enter a cell that expires this turn
HitTailLenient(cell) == cell > 1

\* 'Would hit tail' condition on the candidate cell's value
HitTail(cell) == cell > 0

\* target condition on the candidate cell's value
HitTarget(cell) == cell = -1

\* tick that decrements every non-zero cell, the target included
TickDownTruthy(b) ==
    [i \in DOMAIN b |->
        [j \in DOMAIN b[i] |-> IF b[i][j] # 0 THEN b[i][j] - 1 ELSE b[i][j]]]

\* tick that never clears the end of the tail
TickDownKeepOne(b) ==
    [i \in DOMAIN b |->
        [j \in DOMAIN b[i] |-> IF b[i][j] > 1 THEN b[i][j] - 1 ELSE b[i][j]]]

\* Tick down all the body segments
TickDown(b) ==
    [i \in DOMAIN b |->
        [j \in DOMAIN b[i] |-> IF b[i][j] > 0 THEN b[i][j] - 1 ELSE b[i][j]]]

\* step that ticks the body down before the tail check
StepTickFirst(g, direction) ==
    LET newHeadRow == NewHeadRow(HeadRow(g), direction)
        newHeadColumn == NewHeadColumn(HeadColumn(g), direction)
    IN  IF HitWall(g.board, newHeadRow, newHeadColumn)
        THEN [board |-> g.board, length |-> g.length, outcome |-> "wall"]
        ELSE IF HitTail(g.board[newHeadRow][newHeadColumn])
        THEN [board |-> TickDown(g.board), length |-> g.length, outcome |-> "tail"]
        ELSE IF HitTarget(g.board[newHeadRow][newHeadColumn])
        THEN [board |-> [g.board EXCEPT ![newHeadRow][newHeadColumn] = g.length + 1],
              length |-> g.length + 1, outcome |-> "grow"]
        ELSE [board |-> [TickDown(g.board) EXCEPT ![newHeadRow][newHeadColumn] = g.length],
              length |-> g.length, outcome |-> "move"]

\* step that writes the new head before ticking the body down
StepHeadThenTick(g, direction) ==
    LET newHeadRow == NewHeadRow(HeadRow(g), direction)
        newHeadColumn == NewHeadColumn(HeadColumn(g), direction)
    IN  IF HitWall(g.board, newHeadRow, newHeadColumn)
        THEN [board |-> g.board, length |-> g.length, outcome |-> "wall"]
        ELSE IF HitTail(g.board[newHeadRow][newHeadColumn])
        THEN [board |-> g.board, length |-> g.length, outcome |-> "tail"]
        ELSE IF HitTarget(g.board[newHeadRow][newHeadColumn])
        THEN [board |-> [g.board EXCEPT ![newHeadRow][newHeadColumn] = g.length + 1],
              length |-> g.length + 1, outcome |-> "grow"]
        ELSE [board |-> TickDown([g.board EXCEPT ![newHeadRow][newHeadColumn] = g.length]),
              length |-> g.length, outcome |-> "move"]

\* step whose growth branch writes the longer head but keeps the length
StepNoGrow(g, direction) ==
    LET newHeadRow == NewHeadRow(HeadRow(g), direction)
        newHeadColumn == NewHeadColumn(HeadColumn(g), direction)
    IN  IF HitWall(g.board, newHeadRow, newHeadColumn)
        THEN [board |-> g.board, length |-> g.length, outcome |-> "wall"]
        ELSE IF HitTail(g.board[newHeadRow][newHeadColumn])
        THEN [board |-> g.board, length |-> g.length, outcome |-> "tail"]
        ELSE IF HitTarget(g.board[newHeadRow][newHeadColumn])
        THEN [board |-> [g.board EXCEPT ![newHeadRow][newHeadColumn] = g.length + 1],
              length |-> g.length, outcome |-> "grow"]
        ELSE [board |-> [TickDown(g.board) EXCEPT ![newHeadRow][newHeadColumn] = g.length],
              length |-> g.length, outcome |-> "move"]

\* step whose growth branch does not return before the tick
StepGrowTick(g, direction) ==
    LET newHeadRow == NewHeadRow(HeadRow(g), direction)
        newHeadColumn == NewHeadColumn(HeadColumn(g), direction)
    IN  IF HitWall(g.board, newHeadRow, newHeadColumn)
        THEN [board |-> g.board, length |-> g.length, outcome |-> "wall"]
        ELSE IF HitTail(g.board[newHeadRow][newHeadColumn])
        THEN [board |-> g.board, length |-> g.length, outcome |-> "tail"]
        ELSE IF HitTarget(g.board[newHeadRow][newHeadColumn])
        THEN [board |-> [TickDown(g.board) EXCEPT ![newHeadRow][newHeadColumn] = g.length + 1],
              length |-> g.length + 1, outcome |-> "grow"]
        ELSE [board |-> [TickDown(g.board) EXCEPT ![newHeadRow][newHeadColumn] = g.length],
              length |-> g.length, outcome |-> "move"]

\* step whose growth branch writes a head two above the old length
StepGrowTwo(g, direction) ==
    LET newHeadRow == NewHeadRow(HeadRow(g), direction)
        newHeadColumn == NewHeadColumn(HeadColumn(g), direction)
    IN  IF HitWall(g.board, newHeadRow, newHeadColumn)
        THEN [board |-> g.board, length |-> g.length, outcome |-> "wall"]
        ELSE IF HitTail(g.board[newHeadRow][newHeadColumn])
        THEN [board |-> g.board, length |-> g.length, outcome |-> "tail"]
        ELSE IF HitTarget(g.board[newHeadRow][newHeadColumn])
        THEN [board |-> [g.board EXCEPT ![newHeadRow][newHeadColumn] = g.length + 2],
              length |-> g.length + 1, outcome |-> "grow"]
        ELSE [board |-> [TickDown(g.board) EXCEPT ![newHeadRow][newHeadColumn] = g.length],
              length |-> g.length, outcome |-> "move"]

\* step that lets the head leave the last column and lengthens the row
StepExtendsRow(g, direction) ==
    LET newHeadRow == NewHeadRow(HeadRow(g), direction)
        newHeadColumn == NewHeadColumn(HeadColumn(g), direction)
    IN  IF /\ newHeadRow \in DOMAIN g.board
           /\ newHeadColumn = ArrayLength(g.board[0])
        THEN [board |-> [i \in DOMAIN g.board |->
                           IF i = newHeadRow
                           THEN [j \in 0 .. newHeadColumn |->
                                   IF j = newHeadColumn THEN g.length
                                   ELSE TickDown(g.board)[i][j]]
                           ELSE TickDown(g.board)[i]],
              length |-> g.length, outcome |-> "move"]
        ELSE IF HitWall(g.board, newHeadRow, newHeadColumn)
        THEN [board |-> g.board, length |-> g.length, outcome |-> "wall"]
        ELSE IF HitTail(g.board[newHeadRow][newHeadColumn])
        THEN [board |-> g.board, length |-> g.length, outcome |-> "tail"]
        ELSE IF HitTarget(g.board[newHeadRow][newHeadColumn])
        THEN [board |-> [g.board EXCEPT ![newHeadRow][newHeadColumn] = g.length + 1],
              length |-> g.length + 1, outcome |-> "grow"]
        ELSE [board |-> [TickDown(g.board) EXCEPT ![newHeadRow][newHeadColumn] = g.length],
              length |-> g.length, outcome |-> "move"]

\* advance up to its return, throw, or call of placeRandomly: the game it
\* leaves and how it ended
Step(g, direction) ==
    LET newHeadRow == NewHeadRow(HeadRow(g), direction)
        newHeadColumn == NewHeadColumn(HeadColumn(g), direction)
    IN  IF HitWall(g.board, newHeadRow, newHeadColumn)
        THEN [board |-> g.board, length |-> g.length, outcome |-> "wall"]
        ELSE IF HitTail(g.board[newHeadRow][newHeadColumn])
        THEN [board |-> g.board, length |-> g.length, outcome |-> "tail"]
        ELSE IF HitTarget(g.board[newHeadRow][newHeadColumn])
        THEN [board |-> [g.board EXCEPT ![newHeadRow][newHeadColumn] = g.length + 1],
              length |-> g.length + 1, outcome |-> "grow"]
        ELSE [board |-> [TickDown(g.board) EXCEPT ![newHeadRow][newHeadColumn] = g.length],
              length |-> g.length, outcome |-> "move"]

\* empty test that also accepts a snake cell
IsEmptyOrSnake(cell) == cell >= 0

\* one attempt of placeRandomly on the sampled cell: the test for an empty cell
IsEmpty(cell) == cell = 0

\* one attempt of placeRandomly: the board it leaves
PlaceAt(b, rowIndex, columnIndex, value) ==
    IF IsEmpty(b[rowIndex][columnIndex])
    THEN [b EXCEPT ![rowIndex][columnIndex] = value]
    ELSE b

\* board with width rows and height columns
EmptyBoardSwapped(width, height) ==
    [i \in 0 .. (width - 1) |-> [j \in 0 .. (height - 1) |-> 0]]

\* board built by init before the placements
EmptyBoard(width, height) ==
    [i \in 0 .. (height - 1) |-> [j \in 0 .. (width - 1) |-> 0]]

\* height = width default parameter of init
DefaultHeight(width, height) == IF height = Undefined THEN width ELSE height

game == [board |-> board, length |-> length]

\* 'rendered' tells whether render ran (console.log was called) in the
\* latest run of initDisplay or of the keydown listener; 'display' holds the
\* class attributes of the cell elements

\* class attribute render gives each cell element
render(g) ==
    [i \in DOMAIN g.board |->
        [j \in DOMAIN g.board[i] |->
            IF g.board[i][j] = -1 THEN "target"
            ELSE IF g.board[i][j] # 0 THEN "snake"
            ELSE "empty"]]

\* cell elements as initDisplay creates them
BlankDisplay(b) == [i \in DOMAIN b |-> [j \in DOMAIN b[i] |-> "cell"]]

Init ==
    /\ \E width \in 1 .. MaxWidth, height \in (1 .. MaxHeight) \cup {Undefined} :
          /\ width * DefaultHeight(width, height) <= MaxCells
          /\ args = [width |-> width, height |-> height]
          /\ board = EmptyBoard(width, DefaultHeight(width, height))
    /\ length = 1
    /\ pc = "init_snake"
    /\ dir = "none"
    /\ outcome = "none"
    /\ old = [board |-> board, length |-> 1]
    /\ key = "none"
    /\ display = BlankDisplay(board)
    /\ rendered = FALSE

\* one attempt of a running placeRandomly(game, value); on success control
\* goes to 'next', otherwise the call retries
placeRandomly(value, next) ==
    \E rowIndex \in randomIndex(ArrayLength(board)) :
      \E columnIndex \in randomIndex(ArrayLength(board[rowIndex])) :
        /\ board' = PlaceAt(board, rowIndex, columnIndex, value)
        /\ pc' = IF IsEmpty(board[rowIndex][columnIndex]) THEN next ELSE pc
        /\ UNCHANGED <<length, args, dir, outcome, old, key>>

\* init: placeRandomly(game, game.length)
InitPlaceSnake ==
    /\ pc = "init_snake"
    /\ placeRandomly(length, "init_target")
    /\ UNCHANGED <<display, rendered>>

\* init: placeRandomly(game, -1); when it returns initDisplay renders
InitPlaceTarget ==
    /\ pc = "init_target"
    /\ placeRandomly(-1, "idle")
    /\ display' = IF pc' = "idle" THEN render(game') ELSE display
    /\ rendered' = (pc' = "idle")

\* advance(game, direction) up to its return, throw or placeRandomly call
Advance(direction) ==
    LET res == Step(game, direction)
    IN  /\ board' = res.board
        /\ length' = res.length
        /\ outcome' = res.outcome
        /\ dir' = direction
        /\ old' = game
        /\ pc' = IF res.outcome = "grow" THEN "grow_target" ELSE "idle"
        /\ UNCHANGED args

\* advanceDisplay up to the return of an ordinary move: render follows
\* advance only when advance has returned
advanceDisplay(direction) ==
    /\ Advance(direction)
    /\ display' = IF outcome' = "move" THEN render(game') ELSE display
    /\ rendered' = (outcome' = "move")

\* keydown listener
KeyDown ==
    /\ pc = "idle"
    /\ \E k \in Keys :
         /\ key' = k
         /\ IF k \in ArrowKeys
            THEN advanceDisplay(KeyDirection(k))
            ELSE /\ rendered' = FALSE
                 /\ UNCHANGED <<board, length, pc, args, dir, outcome, old, display>>

\* advance: placeRandomly(game, -1) of the growth branch, then return to
\* advanceDisplay, which renders
GrowPlaceTarget ==
    /\ pc = "grow_target"
    /\ placeRandomly(-1, "idle")
    /\ display' = IF pc' = "idle" THEN render(game') ELSE display
    /\ rendered' = (pc' = "idle")

Next == InitPlaceSnake \/ InitPlaceTarget \/ KeyDown \/ GrowPlaceTarget

Spec == Init /\ [][Next]_vars

\* Fair sampling: an attempt that can succeed is eventually made
FairSpec ==
    /\ Spec
    /\ WF_vars(InitPlaceSnake)
    /\ WF_vars(InitPlaceTarget)
    /\ WF_vars(GrowPlaceTarget)

(***************************************************************************)
(* Vocabulary of the properties.  'old', 'dir' and 'outcome' record the    *)
(* game before the latest advance call, its direction and how it ended.    *)
(***************************************************************************)

\* all <<row, column>> positions of a board
Cells(b) == UNION {{<<i, j>> : j \in DOMAIN b[i]} : i \in DOMAIN b}

At(b, cell) == b[cell[1]][cell[2]]

\* positions holding a given value
Holding(b, v) == {cell \in Cells(b) : At(b, cell) = v}

\* unit offset of a direction on <<row, column>>
Offset(d) ==
    CASE d = North -> <<-1, 0>>
      [] d = South -> <<1, 0>>
      [] d = East  -> <<0, 1>>
      [] d = West  -> <<0, -1>>

\* position of the head of a game (<<-1, -1>> when there is none)
HeadOf(g) ==
    IF Holding(g.board, g.length) = {} THEN <<-1, -1>>
    ELSE CHOOSE cell \in Holding(g.board, g.length) : TRUE

\* candidate head position of a step of game g in direction d
CandidateOf(g, d) == <<HeadOf(g)[1] + Offset(d)[1], HeadOf(g)[2] + Offset(d)[2]>>

\* candidate position of the latest advance call
Candidate == CandidateOf(old, dir)

\* an advance call has been made
Stepped == outcome # "none"

Rejected == outcome \in {"wall", "tail"}

\* the game is between calls: init has returned and no advance is running
Idle == pc = "idle"

TypeOK ==
    /\ pc \in {"init_snake", "init_target", "idle", "grow_target"}
    /\ length \in Nat
    /\ dir \in Direction \cup {"none"}
    /\ outcome \in {"none", "wall", "tail", "grow", "move"}
    /\ \A cell \in Cells(board) : At(board, cell) \in Int

(***************************************************************************)
(* C1: a step rejected with the wall or the tail error leaves every cell   *)
(* of the board and the length as they were before the call.               *)
(***************************************************************************)
C1_Atomicity == Rejected => (board = old.board /\ length = old.length)

C1_Witness ==
    /\ outcome = "tail"
    /\ length = 3
    /\ board = old.board

(***************************************************************************)
(* C2: once init has placed the snake, in every state exactly one cell of  *)
(* the board holds the value length.                                       *)
(***************************************************************************)
C2_UniqueHead ==
    pc \in {"idle", "grow_target"} => Cardinality(Holding(board, length)) = 1

C2_Witness ==
    /\ Idle
    /\ outcome = "move"
    /\ length = 3
    /\ Cardinality(Holding(board, length)) = 1

(***************************************************************************)
(* C3: between calls, on a board of at least 2 cells, exactly one cell     *)
(* holds -1.                                                               *)
(***************************************************************************)
C3_SingleTarget ==
    (Idle /\ Cardinality(Cells(board)) >= 2) =>
        Cardinality(Holding(board, -1)) = 1

C3_Witness ==
    /\ Idle
    /\ outcome = "grow"
    /\ Cardinality(Holding(board, -1)) = 1
    /\ Holding(board, -1) # Holding(old.board, -1)

(***************************************************************************)
(* C4: a step whose candidate cell holds -1 increases length by 1 and      *)
(* leaves the new length in the candidate cell; when it returns exactly    *)
(* one cell holds -1, a cell that was empty before; and the placement      *)
(* always has an empty cell to take, also when the snake fills the board.  *)
(***************************************************************************)
OntoTarget ==
    /\ Stepped
    /\ Candidate \in Cells(old.board)
    /\ At(old.board, Candidate) = -1

C4_Growth ==
    OntoTarget =>
        /\ length = old.length + 1
        /\ At(board, Candidate) = length
        /\ Idle =>
              /\ Cardinality(Holding(board, -1)) = 1
              /\ \A cell \in Holding(board, -1) : At(old.board, cell) = 0
        /\ ~Idle => Holding(board, 0) # {}

(***************************************************************************)
(* C5: a successful step whose candidate cell holds 0 leaves the old board *)
(* with every positive cell decreased by 1, the candidate cell set to      *)
(* length and every other cell unchanged; length is unchanged.             *)
(***************************************************************************)
OntoEmpty ==
    /\ Stepped
    /\ ~Rejected
    /\ Candidate \in Cells(old.board)
    /\ At(old.board, Candidate) = 0

C5_OrdinaryMove ==
    OntoEmpty =>
        /\ length = old.length
        /\ Cells(board) = Cells(old.board)
        /\ \A cell \in Cells(old.board) :
              At(board, cell) =
                 IF cell = Candidate THEN old.length
                 ELSE IF At(old.board, cell) > 0 THEN At(old.board, cell) - 1
                 ELSE At(old.board, cell)

C5_Witness ==
    /\ OntoEmpty
    /\ length = 3
    /\ \E cell \in Cells(board) : At(old.board, cell) = 1 /\ At(board, cell) = 0
    /\ \E cell \in Cells(board) : At(old.board, cell) = 3 /\ At(board, cell) = 2
    /\ Holding(board, -1) = Holding(old.board, -1)

(***************************************************************************)
(* C6: a step whose candidate cell is inside the board fails with the tail *)
(* error exactly when that cell holds a value > 0, the value 1 included.   *)
(***************************************************************************)
C6_TailCollision ==
    (Stepped /\ Candidate \in Cells(old.board)) =>
        (outcome = "tail" <=> At(old.board, Candidate) > 0)

C6_Witness ==
    /\ outcome = "tail"
    /\ Candidate \in Cells(old.board)
    /\ At(old.board, Candidate) = 1
    /\ old.length >= 2

(***************************************************************************)
(* C7: a step fails with the wall error exactly when the candidate         *)
(* position has row < 0, row >= rows, column < 0 or column >= columns; a   *)
(* head in the top row stepping North fails so and the board is unchanged. *)
(***************************************************************************)
Rows(b) == Cardinality(DOMAIN b)

Columns(b) == Cardinality(DOMAIN b[0])

OutOfBoard(b, cell) ==
    \/ cell[1] < 0
    \/ cell[1] >= Rows(b)
    \/ cell[2] < 0
    \/ cell[2] >= Columns(b)

C7_WallCollision ==
    Stepped =>
        /\ outcome = "wall" <=> OutOfBoard(old.board, Candidate)
        /\ (HeadOf(old)[1] = 0 /\ dir = North) =>
              (outcome = "wall" /\ board = old.board)

C7_Witness ==
    /\ outcome = "wall"
    /\ dir = North
    /\ HeadOf(old)[1] = 0
    /\ old.length = 2

(***************************************************************************)
(* C8: every invocation of advance eventually finishes.                    *)
(***************************************************************************)
C8_StepCompletes == (pc = "grow_target") ~> Idle

(***************************************************************************)
(* C9: for w * h >= 2, init(w, h) returns, with length = 1 and a board of  *)
(* h rows by w columns holding one 1, one -1 and 0 elsewhere; with h       *)
(* omitted the board is w by w.                                            *)
(***************************************************************************)
InitReturned == Idle /\ ~Stepped

InitHeight == IF args.height = Undefined THEN args.width ELSE args.height

C9_Shape ==
    /\ length = 1
    /\ DOMAIN board = 0 .. (InitHeight - 1)
    /\ \A i \in DOMAIN board : DOMAIN board[i] = 0 .. (args.width - 1)
    /\ Cardinality(Holding(board, 1)) = 1
    /\ Cardinality(Holding(board, -1)) = 1
    /\ Cardinality(Holding(board, 0)) = args.width * InitHeight - 2

C9_InitialState ==
    /\ [](InitReturned => C9_Shape)
    /\ (pc = "init_snake" /\ Cardinality(Cells(board)) >= 2) ~> InitReturned

C9_Witness ==
    /\ InitReturned
    /\ args.width = 3
    /\ args.height = 2
    /\ C9_Shape

(***************************************************************************)
(* C10: length never decreases; a step onto the target increases it by     *)
(* exactly 1, every other step of the game leaves it unchanged.            *)
(***************************************************************************)
StepsOntoTarget ==
    /\ Idle
    /\ key' \in ArrowKeys
    /\ CandidateOf(game, dir') \in Cells(board)
    /\ At(board, CandidateOf(game, dir')) = -1

C10_LengthMonotonic ==
    [][/\ length' >= length
       /\ length' = IF StepsOntoTarget THEN length + 1 ELSE length]_vars

C10_Witness ==
    /\ Idle
    /\ outcome = "grow"
    /\ old.length = 3
    /\ length = 4

(***************************************************************************)
(* C11: on a step onto the target no cell that held a positive value       *)
(* changes; the only cells that change are the candidate cell, from -1 to  *)
(* the new length, and one previously empty cell that receives the target. *)
(***************************************************************************)
Changed == {cell \in Cells(old.board) : At(board, cell) # At(old.board, cell)}

NewTargets == {cell \in Cells(old.board) : At(old.board, cell) = 0 /\ At(board, cell) = -1}

C11_GrowthExcludesDecay ==
    OntoTarget =>
        /\ Cells(board) = Cells(old.board)
        /\ \A cell \in Cells(old.board) :
              At(old.board, cell) > 0 => At(board, cell) = At(old.board, cell)
        /\ At(board, Candidate) = old.length + 1
        /\ Changed = {Candidate} \cup NewTargets
        /\ Cardinality(NewTargets) = IF Idle THEN 1 ELSE 0

C11_Witness ==
    /\ OntoTarget
    /\ Idle
    /\ old.length = 3
    /\ Cardinality(Changed) = 2
    /\ \E cell \in Cells(board) : At(old.board, cell) = 1 /\ At(board, cell) = 1

(***************************************************************************)
(* C12: after a successful step in direction d the cell holding length is  *)
(* the old head position moved by one cell: North row-1, South row+1, East *)
(* column+1, West column-1, the other coordinate unchanged.                *)
(***************************************************************************)
Succeeded == outcome \in {"move", "grow"}

C12_HeadDisplacement ==
    Succeeded =>
        LET oldHead == HeadOf(old)
            head == HeadOf(game)
        IN  /\ Holding(board, length) = {head}
            /\ dir = North => head = <<oldHead[1] - 1, oldHead[2]>>
            /\ dir = South => head = <<oldHead[1] + 1, oldHead[2]>>
            /\ dir = East => head = <<oldHead[1], oldHead[2] + 1>>
            /\ dir = West => head = <<oldHead[1], oldHead[2] - 1>>

C12_Witness ==
    /\ Succeeded
    /\ dir = North
    /\ length = 2
    /\ HeadOf(game) = <<HeadOf(old)[1] - 1, HeadOf(old)[2]>>

(***************************************************************************)
(* C13: in every reachable state every cell value is -1, 0 or a positive   *)
(* integer that is at most length.                                         *)
(***************************************************************************)
C13_ValueBound ==
    \A cell \in Cells(board) : At(board, cell) \in {-1, 0} \cup (1 .. length)

C13_Witness ==
    /\ Idle
    /\ length = 4
    /\ \A v \in {-1, 0, 1, 4} : Holding(board, v) # {}

(***************************************************************************)
(* C14: in every state the board has the h rows and, in every row, the w   *)
(* columns it had right after init.                                        *)
(***************************************************************************)
C14_FixedDimensions ==
    /\ DOMAIN board = 0 .. (InitHeight - 1)
    /\ \A i \in DOMAIN board : DOMAIN board[i] = 0 .. (args.width - 1)

C14_Witness ==
    /\ outcome = "move"
    /\ dir = East
    /\ length = 3
    /\ args.width = 3
    /\ args.height = 2
    /\ Rows(board) = 2
    /\ \A i \in DOMAIN board : Cardinality(DOMAIN board[i]) = 3

(***************************************************************************)
(* C15: a running placeRandomly(game, value) on a board with an empty cell *)
(* eventually returns under fair sampling, having overwritten exactly one  *)
(* previously empty cell with value and changed no other cell; on a board  *)
(* with no empty cell it never returns and writes nothing.                 *)
(***************************************************************************)
Placing == pc \in {"init_snake", "init_target", "grow_target"}

\* value of the running call
PlacedValue == IF pc = "init_snake" THEN length ELSE -1

PlaceRetries == pc' = pc /\ board' = board

PlaceReturns ==
    /\ pc' # pc
    /\ Cells(board') = Cells(board)
    /\ \E cell \in Holding(board, 0) :
          /\ At(board', cell) = PlacedValue
          /\ \A other \in Cells(board) \ {cell} : At(board', other) = At(board, other)

C15_PlaceStep ==
    Placing =>
        /\ PlaceRetries \/ PlaceReturns
        /\ Holding(board, 0) = {} => PlaceRetries

C15_PlacementTermination ==
    /\ [][C15_PlaceStep]_vars
    /\ (pc = "init_snake" /\ Holding(board, 0) # {}) ~> (pc # "init_snake")
    /\ (pc = "init_target" /\ Holding(board, 0) # {}) ~> (pc # "init_target")
    /\ (pc = "grow_target" /\ Holding(board, 0) # {}) ~> (pc # "grow_target")

C15_Witness ==
    /\ Idle
    /\ outcome = "grow"
    /\ old.length = 2
    /\ Cardinality(NewTargets) = 1
    /\ Cardinality(Holding(board, 0)) = 2

(***************************************************************************)
(* C16: between calls the positive values on the board are exactly         *)
(* 1 .. length, each held by exactly one cell; so the snake has length     *)
(* cells and length is at most rows * columns.                             *)
(***************************************************************************)
SnakeCells == {cell \in Cells(board) : At(board, cell) > 0}

C16_BodyEncoding ==
    Idle =>
        /\ \A cell \in SnakeCells : At(board, cell) \in 1 .. length
        /\ \A k \in 1 .. length : Cardinality(Holding(board, k)) = 1
        /\ Cardinality(SnakeCells) = length
        /\ length <= Rows(board) * Columns(board)

C16_Witness ==
    /\ Idle
    /\ outcome = "move"
    /\ length = 4
    /\ Cardinality(SnakeCells) = 4

(***************************************************************************)
(* C17: between calls, for every k with 1 <= k < length the cell holding k *)
(* and the cell holding k + 1 are orthogonally adjacent.                   *)
(***************************************************************************)
Abs(x) == IF x < 0 THEN 0 - x ELSE x

Adjacent(a, b) == Abs(a[1] - b[1]) + Abs(a[2] - b[2]) = 1

C17_BodyContiguity ==
    Idle =>
        \A k \in 1 .. (length - 1) :
            \A a \in Holding(board, k) :
                \A b \in Holding(board, k + 1) : Adjacent(a, b)

C17_Witness ==
    /\ Idle
    /\ length = 4
    /\ dir = East
    /\ outcome = "move"
    /\ \A k \in 1 .. 3 :
          \E a \in Holding(board, k) : \E b \in Holding(board, k + 1) : Adjacent(a, b)

(***************************************************************************)
(* C18: when a step in direction d has succeeded and the length is then at *)
(* least 2, a step in the opposite direction made next fails with the tail *)
(* error and changes neither board nor length; with length 1 the opposite  *)
(* step does not fail with the tail error.                                 *)
(***************************************************************************)
Opposite(d) ==
    CASE d = North -> South
      [] d = South -> North
      [] d = East  -> West
      [] d = West  -> East

\* the next step of the game is an advance call reversing the latest one
Reverses ==
    /\ Idle
    /\ Succeeded
    /\ key' \in ArrowKeys
    /\ dir' = Opposite(dir)

C18_NoReversal ==
    [][Reverses =>
         IF length >= 2
         THEN outcome' = "tail" /\ board' = board /\ length' = length
         ELSE outcome' # "tail"]_vars

\* a rejected step back onto the cell the head came from
C18_Witness ==
    /\ outcome = "tail"
    /\ length = 3
    /\ Candidate \in Cells(board)
    /\ At(board, Candidate) = length - 1
    /\ key = "ArrowDown"

(***************************************************************************)
(* C19: a keydown whose key is not an arrow invokes no step and leaves     *)
(* board and length unchanged; an arrow keydown invokes exactly one step,  *)
(* ArrowUp North, ArrowDown South, ArrowRight East, ArrowLeft West, and    *)
(* the board is rendered afterwards only if the step did not fail;         *)
(* rendering changes neither board nor length.                             *)
(***************************************************************************)
ArrowOf(d) ==
    CASE d = North -> "ArrowUp"
      [] d = South -> "ArrowDown"
      [] d = East  -> "ArrowRight"
      [] d = West  -> "ArrowLeft"

\* the cell elements show board b
Shows(b) ==
    \A cell \in Cells(b) :
        At(display, cell) =
            IF At(b, cell) = -1 THEN "target"
            ELSE IF At(b, cell) > 0 THEN "snake"
            ELSE "empty"

\* effect of a keydown event on a game between calls
C19_KeyDown ==
    IF key' \notin ArrowKeys
    THEN /\ UNCHANGED <<board, length, pc, dir, outcome, old, display>>
         /\ rendered' = FALSE
    ELSE /\ old' = game
         /\ key' = ArrowOf(dir')
         /\ outcome' \in {"wall", "tail"} =>
               /\ UNCHANGED <<board, length, display>>
               /\ rendered' = FALSE
         /\ outcome' \in {"move", "grow"} =>
               /\ Holding(board', length') = {CandidateOf(game, dir')}
               /\ rendered' = (pc' = "idle")
               /\ rendered' => Shows(board)'

\* return of a growth step to advanceDisplay
C19_GrowReturn ==
    (pc = "grow_target" /\ pc' = "idle") =>
        /\ rendered'
        /\ Shows(board)'
        /\ length' = length
        /\ \A cell \in Cells(board) \ Holding(board, 0) : At(board', cell) = At(board, cell)

C19_InputHandling ==
    [][(Idle => C19_KeyDown) /\ C19_GrowReturn]_vars

C19_Witness ==
    /\ key = "Enter"
    /\ outcome = "move"
    /\ dir = West
    /\ length = 2
    /\ ~rendered
    /\ Shows(board)
====
